---------------------------- MODULE Spec2Model ----------------------------
(***************************************************************************)
(* A model of the sentence-aware WebVTT translator: the cue parser, the    *)
(* sentence grouper, the translation redistributor, the reconstructor      *)
(* (class VTTParser) and the translateVTT handler that drives them.        *)
(*                                                                         *)
(* A string is a sequence of characters; a character is a one-element      *)
(* TLA+ string.  The control characters are written LF, CR and TAB, and    *)
(* the non-ASCII characters of the source by their code points.            *)
(***************************************************************************)
EXTENDS Integers, Sequences, FiniteSets, TLC

VARIABLES
    \* the parse / group / reconstruct pipeline applied to one input text
    pin, pstage, pcues, pgroups, pout, pcues2,
    \* one call of redistributeTranslation: its arguments, its position, its
    \* locals, the lines as the last iteration of the under-fill loop found
    \* them, the iterations of that loop and how it ended
    rgroup, rtext, rpc, translatedLines, rbefore, rsteps, rstop, newTextLines, updatedCues,
    \* the state of the VTTTranslator component
    vttContent, translatedContent, isTranslating, progress, groups, toast,
    \* a run of translateVTT: its position, its locals, and the calls of
    \* redistributeTranslation it has made
    pc, sentenceGroups, loopI, translatedCues, calls,
    \* translations completing in any order: the text fixed for each group and
    \* the groups whose cues have been appended
    ctexts, cdone

pvars == <<pin, pstage, pcues, pgroups, pout, pcues2>>
rvars == <<rgroup, rtext, rpc, translatedLines, rbefore, rsteps, rstop, newTextLines,
           updatedCues>>
cvars == <<vttContent, translatedContent, isTranslating, progress, groups, toast>>
tvars == <<pc, sentenceGroups, loopI, translatedCues, calls, ctexts, cdone>>
vars == <<pvars, rvars, cvars, tvars>>

-----------------------------------------------------------------------------
(* Characters and the string primitives of the JavaScript runtime.         *)

LF == "LF"
CR == "CR"
TAB == "TAB"
SP == " "

\* String.prototype.trim removes these from both ends
WhiteSpace == {SP, TAB, LF, CR}

RECURSIVE TrimStart(_)
TrimStart(s) ==
    IF s # <<>> /\ Head(s) \in WhiteSpace THEN TrimStart(Tail(s)) ELSE s

RECURSIVE TrimEnd(_)
TrimEnd(s) ==
    IF s # <<>> /\ s[Len(s)] \in WhiteSpace
    THEN TrimEnd(SubSeq(s, 1, Len(s) - 1))
    ELSE s

Trim(s) == TrimEnd(TrimStart(s))

\* the position of the first occurrence of sep in s, 0 when there is none
RECURSIVE IndexFrom(_, _, _)
IndexFrom(s, sep, i) ==
    IF i + Len(sep) - 1 > Len(s) THEN 0
    ELSE IF SubSeq(s, i, i + Len(sep) - 1) = sep THEN i
    ELSE IndexFrom(s, sep, i + 1)

IndexOf(s, sep) == IndexFrom(s, sep, 1)

Includes(s, sep) == IndexOf(s, sep) # 0

\* String.prototype.split with a non-empty string separator
RECURSIVE Split(_, _)
Split(s, sep) ==
    LET i == IndexOf(s, sep)
    IN  IF i = 0 THEN <<s>>
        ELSE <<SubSeq(s, 1, i - 1)>> \o Split(SubSeq(s, i + Len(sep), Len(s)), sep)

\* Array.prototype.join
RECURSIVE Join(_, _)
Join(parts, sep) ==
    IF parts = <<>> THEN <<>>
    ELSE IF Len(parts) = 1 THEN parts[1]
    ELSE parts[1] \o sep \o Join(Tail(parts), sep)

\* Array.prototype.filter(line => line.length > 0)
RECURSIVE DropEmpty(_)
DropEmpty(seq) ==
    IF seq = <<>> THEN <<>>
    ELSE (IF Len(Head(seq)) > 0 THEN <<Head(seq)>> ELSE <<>>) \o DropEmpty(Tail(seq))

\* Array.prototype.filter(line => line.trim().length > 0)
RECURSIVE DropBlank(_)
DropBlank(seq) ==
    IF seq = <<>> THEN <<>>
    ELSE (IF Len(Trim(Head(seq))) > 0 THEN <<Head(seq)>> ELSE <<>>) \o DropBlank(Tail(seq))

MapTrim(seq) == [k \in 1..Len(seq) |-> Trim(seq[k])]

-----------------------------------------------------------------------------
(* VTTParser.parse                                                         *)

SEPARATOR == <<"-", "-", ">">>
HEADER == <<"W", "E", "B", "V", "T", "T">>

NoCue == [open |-> FALSE, startTime |-> <<>>, endTime |-> <<>>, textLines |-> <<>>]

\* a faulty SavePrevious: a discarded cue consumes an index too
SavePreviousCountsAll(st) ==
    IF st.currentCue.open /\ Len(st.currentCue.textLines) > 0
    THEN [st EXCEPT !.cues = Append(@, [startTime |-> st.currentCue.startTime,
                                        endTime |-> st.currentCue.endTime,
                                        textLines |-> st.currentCue.textLines,
                                        originalIndex |-> st.cueIndex]),
                    !.cueIndex = @ + 1]
    ELSE IF st.currentCue.open THEN [st EXCEPT !.cueIndex = @ + 1]
    ELSE st

\* cues.push({...currentCue, originalIndex: cueIndex++}) when the open cue has text
SavePrevious(st) ==
    IF st.currentCue.open /\ Len(st.currentCue.textLines) > 0
    THEN [st EXCEPT !.cues = Append(@, [startTime |-> st.currentCue.startTime,
                                        endTime |-> st.currentCue.endTime,
                                        textLines |-> st.currentCue.textLines,
                                        originalIndex |-> st.cueIndex]),
                    !.cueIndex = @ + 1]
    ELSE st

\* const [startTime, endTime] = line.split('-->').map(t => t.trim())
OpenCue(line) ==
    LET parts == MapTrim(Split(line, SEPARATOR))
    IN  [open |-> TRUE, startTime |-> parts[1], endTime |-> parts[2], textLines |-> <<>>]

\* one iteration of the loop over the lines
ParseLine(st, rawLine) ==
    LET line == Trim(rawLine)
    IN  IF line = <<>> \/ line = HEADER THEN st
        ELSE IF Includes(line, SEPARATOR)
             THEN [SavePrevious(st) EXCEPT !.currentCue = OpenCue(line)]
        ELSE IF st.currentCue.open
             THEN [st EXCEPT !.currentCue.textLines = Append(@, line)]
        ELSE st

RECURSIVE ParseLoop(_, _)
ParseLoop(st, lines) ==
    IF lines = <<>> THEN st ELSE ParseLoop(ParseLine(st, Head(lines)), Tail(lines))

parse(content) ==
    SavePrevious(ParseLoop([cues |-> <<>>, currentCue |-> NoCue, cueIndex |-> 0],
                           Split(content, <<LF>>))).cues


-----------------------------------------------------------------------------
(* VTTParser.groupCuesIntoSentences                                        *)

UpperCase == {"A", "B", "C", "D", "E", "F", "G", "H", "I", "J", "K", "L", "M",
              "N", "O", "P", "Q", "R", "S", "T", "U", "V", "W", "X", "Y", "Z"}

\* the character class of SENTENCE_ENDINGS, /[.!?...]+$/: the source file holds,
\* after '?', the three characters U+00E2, U+20AC and U+00A6
SentenceEndingChars == {".", "!", "?", "U+00E2", "U+20AC", "U+00A6"}

\* the character class of SENTENCE_STARTERS, /^[A-Z\-"'"]/
SentenceStarterChars == UpperCase \cup {"-", "\"", "'"}

\* SENTENCE_ENDINGS.test(s): one or more characters of the class at the end
SENTENCE_ENDINGS(s) == s # <<>> /\ s[Len(s)] \in SentenceEndingChars

\* SENTENCE_STARTERS.test(s): a character of the class at the start
SENTENCE_STARTERS(s) == s # <<>> /\ s[1] \in SentenceStarterChars

\* s.replace(/\s+/g, ' ')
RECURSIVE CollapseWhiteSpace(_)
CollapseWhiteSpace(s) ==
    IF s = <<>> THEN <<>>
    ELSE IF Head(s) \in WhiteSpace
         THEN <<SP>> \o CollapseWhiteSpace(TrimStart(s))
         ELSE <<Head(s)>> \o CollapseWhiteSpace(Tail(s))

combineCueTexts(cues) ==
    Trim(CollapseWhiteSpace(
        Join([k \in 1..Len(cues) |-> Join(cues[k].textLines, <<SP>>)], <<SP>>)))

\* cue.textLines[cue.textLines.length - 1] || ''
LastLine(cue) == IF cue.textLines = <<>> THEN <<>> ELSE cue.textLines[Len(cue.textLines)]

\* cue.textLines[0] || ''
FirstLine(cue) == IF cue.textLines = <<>> THEN <<>> ELSE cue.textLines[1]

\* a faulty IsBoundary: either condition alone closes the group
IsBoundaryEither(currentCue, nextCue) ==
    \/ SENTENCE_ENDINGS(Trim(LastLine(currentCue)))
    \/ SENTENCE_STARTERS(Trim(FirstLine(nextCue)))

\* the test of the loop body: does a sentence end between currentCue and nextCue
IsBoundary(currentCue, nextCue) ==
    /\ SENTENCE_ENDINGS(Trim(LastLine(currentCue)))
    /\ SENTENCE_STARTERS(Trim(FirstLine(nextCue)))

CloseGroup(currentGroup) == [cues |-> currentGroup, combinedText |-> combineCueTexts(currentGroup)]

\* the loop from nextCue = cues[n] (1-based) with the groups closed so far
RECURSIVE GroupLoop(_, _, _, _)
GroupLoop(cues, n, closed, currentGroup) ==
    IF n > Len(cues)
    THEN IF Len(currentGroup) > 0 THEN Append(closed, CloseGroup(currentGroup)) ELSE closed
    ELSE IF IsBoundary(cues[n - 1], cues[n])
         THEN GroupLoop(cues, n + 1, Append(closed, CloseGroup(currentGroup)), <<cues[n]>>)
         ELSE GroupLoop(cues, n + 1, closed, Append(currentGroup, cues[n]))

\* a faulty groupCuesIntoSentences: the open group starts empty
groupCuesFromEmpty(cues) ==
    IF Len(cues) = 0 THEN <<>> ELSE GroupLoop(cues, 2, <<>>, <<>>)

groupCuesIntoSentences(cues) ==
    IF Len(cues) = 0 THEN <<>> ELSE GroupLoop(cues, 2, <<>>, <<cues[1]>>)

-----------------------------------------------------------------------------
(* VTTParser.reconstructVTT                                                *)

\* insert cue after every element whose originalIndex is not greater: a stable sort
RECURSIVE InsertSorted(_, _)
InsertSorted(sorted, cue) ==
    IF sorted = <<>> THEN <<cue>>
    ELSE IF Head(sorted).originalIndex <= cue.originalIndex
         THEN <<Head(sorted)>> \o InsertSorted(Tail(sorted), cue)
         ELSE <<cue>> \o sorted

\* a faulty SortByIndex: the cues are emitted in the order given
Unsorted(cues) == cues

\* [...cues].sort((a, b) => a.originalIndex - b.originalIndex)
RECURSIVE SortByIndex(_)
SortByIndex(cues) ==
    IF cues = <<>> THEN <<>>
    ELSE InsertSorted(SortByIndex(SubSeq(cues, 1, Len(cues) - 1)), cues[Len(cues)])

\* a faulty CueBlock: the text lines of a cue joined by a blank
CueBlockOneLine(cue) ==
    cue.startTime \o <<SP>> \o SEPARATOR \o <<SP>> \o cue.endTime \o <<LF>>
        \o Join(cue.textLines, <<SP>>) \o <<LF, LF>>

\* `${cue.startTime} --> ${cue.endTime}\n` + cue.textLines.join('\n') + '\n\n'
CueBlock(cue) ==
    cue.startTime \o <<SP>> \o SEPARATOR \o <<SP>> \o cue.endTime \o <<LF>>
        \o Join(cue.textLines, <<LF>>) \o <<LF, LF>>

RECURSIVE CueBlocks(_)
CueBlocks(cues) == IF cues = <<>> THEN <<>> ELSE CueBlock(Head(cues)) \o CueBlocks(Tail(cues))

reconstructVTT(cues) == Trim(HEADER \o <<LF, LF>> \o CueBlocks(SortByIndex(cues)))


-----------------------------------------------------------------------------
(* VTTParser.redistributeTranslation                                       *)

RECURSIVE SumLineCounts(_)
SumLineCounts(cues) ==
    IF cues = <<>> THEN 0 ELSE Len(Head(cues).textLines) + SumLineCounts(Tail(cues))

\* group.cues.reduce((sum, cue) => sum + cue.textLines.length, 0)
TotalLines(group) == SumLineCounts(group.cues)

\* the pieces between line feeds lose the carriage return the separator took
StripCR(piece) ==
    IF piece # <<>> /\ piece[Len(piece)] = CR THEN SubSeq(piece, 1, Len(piece) - 1) ELSE piece

\* text.split(/\r?\n/)
SplitLineBreaks(text) ==
    LET pieces == Split(text, <<LF>>)
    IN  [k \in 1..Len(pieces) |-> IF k < Len(pieces) THEN StripCR(pieces[k]) ELSE pieces[k]]

\* translatedText.split(/\r?\n/).map(line => line.trim()).filter(line => line.length > 0)
SplitTranslatedLines(translatedText) == DropEmpty(MapTrim(SplitLineBreaks(translatedText)))

\* a faulty LongestScan: on equal length the later line wins
RECURSIVE LongestScanLast(_, _, _, _)
LongestScanLast(lines, i, longestIndex, longestLength) ==
    IF i > Len(lines) THEN longestIndex
    ELSE IF Len(lines[i]) >= longestLength
         THEN LongestScanLast(lines, i + 1, i, Len(lines[i]))
         ELSE LongestScanLast(lines, i + 1, longestIndex, longestLength)

\* the scan for the longest line; indices are 1-based here
RECURSIVE LongestScan(_, _, _, _)
LongestScan(lines, i, longestIndex, longestLength) ==
    IF i > Len(lines) THEN longestIndex
    ELSE IF Len(lines[i]) > longestLength
         THEN LongestScan(lines, i + 1, i, Len(lines[i]))
         ELSE LongestScan(lines, i + 1, longestIndex, longestLength)

LongestIndex(lines) == LongestScan(lines, 1, 1, 0)

\* lineToSplit.split(' ')
Words(lines) == Split(lines[LongestIndex(lines)], <<SP>>)

\* Math.ceil(words.length / 2)
MidPoint(words) == (Len(words) + 1) \div 2

\* a faulty SplitLongest: the second half starts with the last word of the first
SplitLongestOverlap(lines) ==
    LET longestIndex == LongestIndex(lines)
        words == Words(lines)
        midPoint == MidPoint(words)
        firstHalf == Join(SubSeq(words, 1, midPoint), <<SP>>)
        secondHalf == Join(SubSeq(words, midPoint, Len(words)), <<SP>>)
    IN  SubSeq(lines, 1, longestIndex - 1) \o <<firstHalf, secondHalf>>
            \o SubSeq(lines, longestIndex + 1, Len(lines))

\* translatedLines.splice(longestIndex, 1, firstHalf, secondHalf)
SplitLongest(lines) ==
    LET longestIndex == LongestIndex(lines)
        words == Words(lines)
        midPoint == MidPoint(words)
        firstHalf == Join(SubSeq(words, 1, midPoint), <<SP>>)
        secondHalf == Join(SubSeq(words, midPoint + 1, Len(words)), <<SP>>)
    IN  SubSeq(lines, 1, longestIndex - 1) \o <<firstHalf, secondHalf>>
            \o SubSeq(lines, longestIndex + 1, Len(lines))

\* a faulty UnderFilled: the loop goes on when every slot has a line
UnderFilledInclusive(lines, totalLines) == Len(lines) <= totalLines /\ Len(lines) > 0

\* the condition of the while loop
UnderFilled(lines, totalLines) == Len(lines) < totalLines /\ Len(lines) > 0

RECURSIVE UnderfillLoop(_, _)
UnderfillLoop(lines, totalLines) ==
    IF UnderFilled(lines, totalLines) /\ Len(Words(lines)) > 1
    THEN UnderfillLoop(SplitLongest(lines), totalLines)
    ELSE lines

\* a faulty MergeExcess: the excess starts one line too late
MergeExcessLate(lines, totalLines) ==
    IF Len(lines) > totalLines
    THEN IF totalLines = 0 THEN SubSeq(lines, 1, Len(lines) - 1)
         ELSE SubSeq(lines, 1, totalLines - 1)
                  \o <<Join(SubSeq(lines, totalLines + 1, Len(lines)), <<SP>>)>>
    ELSE lines

\* excess = translatedLines.splice(totalLines - 1);
\* translatedLines[totalLines - 1] = excess.join(' ')
\* (with totalLines = 0, splice(-1) removes the last line and index -1 is no element)
MergeExcess(lines, totalLines) ==
    IF Len(lines) > totalLines
    THEN IF totalLines = 0 THEN SubSeq(lines, 1, Len(lines) - 1)
         ELSE SubSeq(lines, 1, totalLines - 1)
                  \o <<Join(SubSeq(lines, totalLines, Len(lines)), <<SP>>)>>
    ELSE lines

\* a faulty NewTextLines: the last line is repeated when the lines run out
NewTextLinesRepeat(lines, lineIndex, count) ==
    [j \in 1..count |->
        IF lineIndex + j <= Len(lines) THEN lines[lineIndex + j]
        ELSE IF lines = <<>> THEN <<>> ELSE lines[Len(lines)]]

\* the inner loop for one cue of count slots, lineIndex lines being consumed
NewTextLines(lines, lineIndex, count) ==
    [j \in 1..count |-> IF lineIndex + j <= Len(lines) THEN lines[lineIndex + j] ELSE <<>>]

\* the slots of every cue before the empty ones are filtered out
AssignSlots(cues, lines) ==
    [k \in 1..Len(cues) |->
        NewTextLines(lines, SumLineCounts(SubSeq(cues, 1, k - 1)), Len(cues[k].textLines))]

\* {...cue, textLines: newTextLines.filter(line => line.trim().length > 0)}
UpdatedCue(cue, slotLines) == [cue EXCEPT !.textLines = DropBlank(slotLines)]

RECURSIVE DropTextless(_)
DropTextless(cues) ==
    IF cues = <<>> THEN <<>>
    ELSE (IF Head(cues).textLines = <<>> THEN <<>> ELSE <<Head(cues)>>)
             \o DropTextless(Tail(cues))

\* a faulty Refill: a cue left without text is not returned
RefillSkipsEmpty(cues, lines) ==
    LET slots == AssignSlots(cues, lines)
    IN  DropTextless([k \in 1..Len(cues) |-> UpdatedCue(cues[k], slots[k])])

Refill(cues, lines) ==
    LET slots == AssignSlots(cues, lines)
    IN  [k \in 1..Len(cues) |-> UpdatedCue(cues[k], slots[k])]

redistributeTranslation(group, translatedText) ==
    LET totalLines == TotalLines(group)
    IN  Refill(group.cues,
               MergeExcess(UnderfillLoop(SplitTranslatedLines(translatedText), totalLines),
                           totalLines))

-----------------------------------------------------------------------------
(* The input texts of the parse pipeline: up to MaxBlocks blocks of lines, *)
(* joined by line feeds.                                                   *)

MaxBlocks == 3

TimeLine == <<"1", SP, "-", "-", ">", SP, "2">>
\* no blanks around the separator, a dash before it and nothing after it
TightTimeLine == <<"3", "-", "-", "-", ">">>
DoubleTimeLine == <<"5", SP, "-", "-", ">", SP, "6", SP, "-", "-", ">", SP, "7">>

\* text lines: starting a sentence or not, ending one or not, in all four
\* combinations; the first with blanks around it
LineHi == <<SP, "H", "i", ".", CR>>
LineGo == <<"g", "o">>
LineUp == <<"U", "p">>
LineOk == <<"o", "k", "!">>
\* a line of dialogue: it starts with a hyphen and ends with a question mark
LineDash == <<"-", SP, "a", "?">>
\* a quotation: it starts with a left curly quote and ends with an ellipsis
LineCurly == <<"U+201C", "x", "U+2026">>
\* a price: it ends with the euro sign
LineEuro == <<"5", "U+20AC">>

Blocks ==
    { <<TimeLine, LineHi>>, <<TimeLine, LineGo>>, <<TimeLine, LineUp>>,
      <<TimeLine, LineOk>>, <<TimeLine, LineDash>>, <<TimeLine, LineCurly>>,
      <<TimeLine, LineEuro>>, <<TightTimeLine>>, <<DoubleTimeLine, LineGo, LineHi>>,
      <<<<>>>>, <<HEADER>>, <<LineUp>> }

RECURSIVE Flatten(_)
Flatten(seqs) == IF seqs = <<>> THEN <<>> ELSE Head(seqs) \o Flatten(Tail(seqs))

Contents ==
    { Join(Flatten(bs), <<LF>>) : bs \in UNION { [1..n -> Blocks] : n \in 0..MaxBlocks } }

-----------------------------------------------------------------------------
(* The pipeline on one input: parse, group, reconstruct, parse again.      *)

\* useState<TranslationProgress | null>(null)
NoProgress == [current |-> 0, total |-> 0, stage |-> "null"]

PStart ==
    /\ pstage = "input"
    /\ pcues = <<>>
    /\ pgroups = <<>>
    /\ pout = <<>>
    /\ pcues2 = <<>>

\* no call of redistributeTranslation is under way
RIdle ==
    /\ rgroup = [cues |-> <<>>, combinedText |-> <<>>]
    /\ rtext = <<>>
    /\ rpc = "idle"
    /\ translatedLines = <<>>
    /\ rbefore = <<>>
    /\ rsteps = 0
    /\ rstop = "none"
    /\ newTextLines = <<>>
    /\ updatedCues = <<>>

\* the component as constructed (the useState initial values), no run under way
TIdle ==
    /\ vttContent = <<>>
    /\ translatedContent = <<>>
    /\ isTranslating = FALSE
    /\ progress = NoProgress
    /\ groups = <<>>
    /\ toast = "none"
    /\ pc = "idle"
    /\ sentenceGroups = <<>>
    /\ loopI = 0
    /\ translatedCues = <<>>
    /\ calls = <<>>
    /\ ctexts = <<>>
    /\ cdone = {}

PInit == pin \in Contents /\ PStart /\ RIdle /\ TIdle

PParse ==
    /\ pstage = "input"
    /\ pcues' = parse(pin)
    /\ pstage' = "parsed"
    /\ UNCHANGED <<pin, pgroups, pout, pcues2, rvars, cvars, tvars>>

PGroup ==
    /\ pstage = "parsed"
    /\ pgroups' = groupCuesIntoSentences(pcues)
    /\ pstage' = "grouped"
    /\ UNCHANGED <<pin, pcues, pout, pcues2, rvars, cvars, tvars>>

PReconstruct ==
    /\ pstage = "grouped"
    /\ pout' = reconstructVTT(pcues)
    /\ pstage' = "rebuilt"
    /\ UNCHANGED <<pin, pcues, pgroups, pcues2, rvars, cvars, tvars>>

PReparse ==
    /\ pstage = "rebuilt"
    /\ pcues2' = parse(pout)
    /\ pstage' = "reparsed"
    /\ UNCHANGED <<pin, pcues, pgroups, pout, rvars, cvars, tvars>>

PNext == PParse \/ PGroup \/ PReconstruct \/ PReparse

PSpec == PInit /\ [][PNext]_vars


-----------------------------------------------------------------------------
(* The arguments of redistributeTranslation: groups of up to MaxSlots text *)
(* lines in all, and texts of up to MaxTranslatedLines lines joined by     *)
(* line feeds.                                                             *)

MaxSlots == 3
MaxTranslatedLines == 3

\* the ways to lay n slots out over cues of at least one line each
RECURSIVE Layouts(_)
Layouts(n) ==
    IF n = 0 THEN {<<>>}
    ELSE UNION { { <<k>> \o rest : rest \in Layouts(n - k) } : k \in 1..n }

\* the k-th cue of a group: distinct opaque times, indices from 0
SlotCue(k, count) ==
    [startTime |-> [j \in 1..k |-> "0"],
     endTime |-> [j \in 1..k |-> "9"],
     textLines |-> [j \in 1..count |-> <<"x">>],
     originalIndex |-> k - 1]

GroupOfLayout(layout) ==
    CloseGroup([k \in 1..Len(layout) |-> SlotCue(k, layout[k])])

SlotGroups == { GroupOfLayout(layout) : layout \in UNION { Layouts(n) : n \in 1..MaxSlots } }

\* translated lines: one word, two words, a one-word line as long as the
\* two-word line, three words, a line with surrounding blanks, a doubled
\* blank and a carriage return, a line with a tab between two blanks, and an
\* empty line
TranslatedLineChoices ==
    { <<"a">>,
      <<"b", SP, "c">>,
      <<"a", "b", "c">>,
      <<"a", SP, "b", SP, "c">>,
      <<SP, "a", SP, SP, "b", CR>>,
      <<"a", SP, TAB, SP, "b">>,
      <<>> }

TranslatedTexts ==
    { Join(ls, <<LF>>) :
        ls \in UNION { [1..n -> TranslatedLineChoices] : n \in 0..MaxTranslatedLines } }

-----------------------------------------------------------------------------
(* One call of redistributeTranslation, loop iteration by loop iteration.  *)

RInit ==
    /\ pin = <<>>
    /\ PStart
    /\ rgroup \in SlotGroups
    /\ rtext \in TranslatedTexts
    /\ rpc = "start"
    /\ translatedLines = <<>>
    /\ rbefore = <<>>
    /\ rsteps = 0
    /\ rstop = "none"
    /\ newTextLines = <<>>
    /\ updatedCues = <<>>
    /\ TIdle

\* lines 125-131: totalLines and the split of the translated text
RSplitText ==
    /\ rpc = "start"
    /\ translatedLines' = SplitTranslatedLines(rtext)
    /\ rpc' = "underfill"
    /\ UNCHANGED <<rgroup, rtext, rbefore, rsteps, rstop, newTextLines, updatedCues, pvars, cvars, tvars>>

\* an iteration of the while loop that splits the longest line
RUnderfillSplit ==
    /\ rpc = "underfill"
    /\ UnderFilled(translatedLines, TotalLines(rgroup))
    /\ Len(Words(translatedLines)) > 1
    /\ translatedLines' = SplitLongest(translatedLines)
    /\ rbefore' = translatedLines
    /\ rsteps' = rsteps + 1
    /\ UNCHANGED <<rgroup, rtext, rpc, rstop, newTextLines, updatedCues, pvars, cvars, tvars>>

\* the iteration that breaks: the longest line is a single word
RUnderfillBreak ==
    /\ rpc = "underfill"
    /\ UnderFilled(translatedLines, TotalLines(rgroup))
    /\ ~(Len(Words(translatedLines)) > 1)
    /\ rbefore' = translatedLines
    /\ rsteps' = rsteps + 1
    /\ rstop' = "break"
    /\ rpc' = "overfill"
    /\ UNCHANGED <<rgroup, rtext, translatedLines, newTextLines, updatedCues, pvars, cvars, tvars>>

\* a faulty RUnderfillExit: the loop may stop while lines are still missing
RUnderfillExitEarly ==
    /\ rpc = "underfill"
    /\ rstop' = "condition"
    /\ rpc' = "overfill"
    /\ UNCHANGED <<rgroup, rtext, translatedLines, rbefore, rsteps, newTextLines, updatedCues,
                   pvars, cvars, tvars>>

\* the loop condition is false
RUnderfillExit ==
    /\ rpc = "underfill"
    /\ ~UnderFilled(translatedLines, TotalLines(rgroup))
    /\ rstop' = "condition"
    /\ rpc' = "overfill"
    /\ UNCHANGED <<rgroup, rtext, translatedLines, rbefore, rsteps, newTextLines, updatedCues,
                   pvars, cvars, tvars>>

\* lines 161-164: the excess lines are merged into the last slot
ROverfill ==
    /\ rpc = "overfill"
    /\ translatedLines' = MergeExcess(translatedLines, TotalLines(rgroup))
    /\ rpc' = "refill"
    /\ UNCHANGED <<rgroup, rtext, rbefore, rsteps, rstop, newTextLines, updatedCues, pvars, cvars, tvars>>

\* a faulty RRefill: the new text lines are written into the cues of the group
RRefillInPlace ==
    /\ rpc = "refill"
    /\ newTextLines' = AssignSlots(rgroup.cues, translatedLines)
    /\ updatedCues' = Refill(rgroup.cues, translatedLines)
    /\ rgroup' = [rgroup EXCEPT !.cues = updatedCues']
    /\ rpc' = "done"
    /\ UNCHANGED <<rtext, translatedLines, rbefore, rsteps, rstop, pvars, cvars, tvars>>

\* lines 167-188: the lines are dealt to the slots of the cues
RRefill ==
    /\ rpc = "refill"
    /\ newTextLines' = AssignSlots(rgroup.cues, translatedLines)
    /\ updatedCues' = Refill(rgroup.cues, translatedLines)
    /\ rpc' = "done"
    /\ UNCHANGED <<rgroup, rtext, translatedLines, rbefore, rsteps, rstop, pvars, cvars, tvars>>

RNext == RSplitText \/ RUnderfillSplit \/ RUnderfillBreak \/ RUnderfillExit \/ ROverfill \/ RRefill

RSpec == RInit /\ [][RNext]_vars

-----------------------------------------------------------------------------
(* The VTTTranslator component: the files a user loads or types, and the   *)
(* responses of TranslationService.translateText.                          *)

FileBlank == <<SP, LF>>
FileHeaderOnly == HEADER
\* three cues in two groups: "Hi." | "Up" "go" + "go"
FileTwoGroups ==
    Join(<<HEADER, <<>>, TimeLine, LineHi, <<>>, TightTimeLine, LineUp, LineGo, <<>>,
           DoubleTimeLine, LineGo>>, <<LF>>)
\* three cues in three groups: "Hi." | "Up" "ok!" | "Hi."
FileThreeGroups ==
    Join(<<TimeLine, LineHi, TightTimeLine, LineUp, LineOk, DoubleTimeLine, LineHi>>, <<LF>>)

Files == {FileBlank, FileHeaderOnly, FileTwoGroups}

\* the texts a translation backend answers with
ResponseTexts == { <<>>, <<"a", SP, "b">>, <<"c", LF, "d">> }

\* TranslationResponse: translateText returns success with the backend's text,
\* or, from its catch block, failure with an empty or a fallback text
Responses == [success : BOOLEAN, translatedText : ResponseTexts]

\* the button is disabled when !vttContent || isTranslating
ButtonEnabled == vttContent # <<>> /\ ~isTranslating

\* reader.onload of handleFileUpload
HandleFileUpload(content) ==
    /\ vttContent' = content
    /\ groups' = groupCuesIntoSentences(parse(content))
    /\ toast' = "VTT File Loaded"
    /\ UNCHANGED <<translatedContent, isTranslating, progress, tvars, pvars, rvars>>

\* onChange of the textarea, shown when vttContent is not empty
EditContent(content) ==
    /\ vttContent # <<>>
    /\ vttContent' = content
    /\ UNCHANGED <<translatedContent, isTranslating, progress, groups, toast, tvars, pvars,
                   rvars>>

\* translateVTT, lines 58-65: nothing but blanks to translate
TranslateNoContent ==
    /\ ButtonEnabled
    /\ Trim(vttContent) = <<>>
    /\ toast' = "No Content"
    /\ UNCHANGED <<vttContent, translatedContent, isTranslating, progress, groups, tvars,
                   pvars, rvars>>

\* lines 105-114 and the finally block: the run ends with the output published
Publish(cues) ==
    /\ translatedContent' = reconstructVTT(cues)
    /\ toast' = "Translation Complete"
    /\ isTranslating' = FALSE
    /\ progress' = NoProgress
    /\ pc' = "idle"

\* translateVTT, lines 67-87: up to the first await, or to the end of the run
\* when there is no group
TranslateStart ==
    /\ ButtonEnabled
    /\ Trim(vttContent) # <<>>
    /\ pc = "idle"
    /\ LET found == groupCuesIntoSentences(parse(vttContent))
       IN  /\ groups' = found
           /\ sentenceGroups' = found
           /\ translatedCues' = <<>>
           /\ calls' = <<>>
           /\ IF Len(found) = 0
              THEN /\ Publish(<<>>)
                   /\ loopI' = 0
              ELSE /\ isTranslating' = TRUE
                   /\ progress' = [current |-> 1, total |-> Len(found), stage |-> "Translating"]
                   /\ pc' = "awaiting"
                   /\ loopI' = 0
                   /\ UNCHANGED <<translatedContent, toast>>
    /\ UNCHANGED <<vttContent, ctexts, cdone, pvars, rvars>>

\* lines 93-99 and on: the awaited translation succeeded
TranslateSucceeded(response) ==
    /\ pc = "awaiting"
    /\ response.success
    /\ LET group == sentenceGroups[loopI + 1]
           redistributedCues == redistributeTranslation(group, response.translatedText)
           pushed == translatedCues \o redistributedCues
       IN  /\ translatedCues' = pushed
           /\ calls' = Append(calls, response)
           /\ loopI' = loopI + 1
           /\ IF loopI + 1 < Len(sentenceGroups)
              THEN /\ progress' = [current |-> loopI + 2, total |-> Len(sentenceGroups),
                                   stage |-> "Translating"]
                   /\ UNCHANGED <<translatedContent, toast, isTranslating, pc>>
              ELSE Publish(pushed)
    /\ UNCHANGED <<vttContent, groups, sentenceGroups, ctexts, cdone, pvars, rvars>>

\* a faulty TranslateFailed: the cues translated so far are published
TranslateFailedPublishes(response) ==
    /\ pc = "awaiting"
    /\ ~response.success
    /\ translatedContent' = reconstructVTT(translatedCues)
    /\ toast' = "Translation Failed"
    /\ isTranslating' = FALSE
    /\ progress' = NoProgress
    /\ pc' = "idle"
    /\ UNCHANGED <<vttContent, groups, sentenceGroups, loopI, translatedCues,
                   calls, ctexts, cdone, pvars, rvars>>

\* lines 100-102, the catch and the finally block: the awaited translation failed
TranslateFailed(response) ==
    /\ pc = "awaiting"
    /\ ~response.success
    /\ toast' = "Translation Failed"
    /\ isTranslating' = FALSE
    /\ progress' = NoProgress
    /\ pc' = "idle"
    /\ UNCHANGED <<vttContent, translatedContent, groups, sentenceGroups, loopI, translatedCues,
                   calls, ctexts, cdone, pvars, rvars>>

Init == pin = <<>> /\ PStart /\ RIdle /\ TIdle

Next ==
    \/ \E content \in Files : HandleFileUpload(content)
    \/ \E content \in Files \cup {<<>>} : EditContent(content)
    \/ TranslateNoContent
    \/ TranslateStart
    \/ \E response \in Responses : TranslateSucceeded(response)
    \/ \E response \in Responses : TranslateFailed(response)

Spec == Init /\ [][Next]_vars

-----------------------------------------------------------------------------
(* The groups of one file translated concurrently: each group has a fixed  *)
(* translated text, the translations complete in any order, and the cues   *)
(* redistributeTranslation returns are appended as they complete.          *)

GroupedFiles == {FileTwoGroups, FileThreeGroups}

CInit ==
    /\ pin = <<>>
    /\ PStart
    /\ RIdle
    /\ vttContent \in GroupedFiles
    /\ groups = groupCuesIntoSentences(parse(vttContent))
    /\ sentenceGroups = groups
    /\ ctexts \in [1..Len(sentenceGroups) -> ResponseTexts]
    /\ cdone = {}
    /\ translatedCues = <<>>
    /\ translatedContent = <<>>
    /\ isTranslating = TRUE
    /\ progress = [current |-> 0, total |-> Len(sentenceGroups), stage |-> "Translating"]
    /\ toast = "none"
    /\ pc = "translating"
    /\ loopI = 0
    /\ calls = <<>>

\* the translation of group g completes: lines 95-99 for that group
CComplete(g) ==
    /\ pc = "translating"
    /\ g \notin cdone
    /\ translatedCues' = translatedCues \o redistributeTranslation(sentenceGroups[g], ctexts[g])
    /\ cdone' = cdone \cup {g}
    /\ UNCHANGED <<pc, sentenceGroups, loopI, calls, ctexts, cvars, pvars, rvars>>

\* lines 108-109 once every group is done
CReconstruct ==
    /\ pc = "translating"
    /\ cdone = 1..Len(sentenceGroups)
    /\ translatedContent' = reconstructVTT(translatedCues)
    /\ pc' = "reconstructed"
    /\ UNCHANGED <<vttContent, isTranslating, progress, groups, toast, sentenceGroups, loopI,
                   translatedCues, calls, ctexts, cdone, pvars, rvars>>

CNext == (\E g \in 1..Len(sentenceGroups) : CComplete(g)) \/ CReconstruct

CSpec == CInit /\ [][CNext]_vars

-----------------------------------------------------------------------------
(* Properties of the parse pipeline.                                       *)

Grouped == pstage \in {"grouped", "rebuilt", "reparsed"}

GroupCues(gs) == Flatten([g \in 1..Len(gs) |-> gs[g].cues])

\* the group that holds the i-th cue of the concatenation of the groups' cues
RECURSIVE GroupOfFrom(_, _, _)
GroupOfFrom(gs, g, n) ==
    IF g >= Len(gs) \/ n <= Len(gs[g].cues) THEN g
    ELSE GroupOfFrom(gs, g + 1, n - Len(gs[g].cues))

GroupOf(gs, n) == GroupOfFrom(gs, 1, n)

IsTimeLine(rawLine) == Includes(Trim(rawLine), SEPARATOR)
IsTextLine(rawLine) ==
    Trim(rawLine) # <<>> /\ Trim(rawLine) # HEADER /\ ~IsTimeLine(rawLine)

\* C2: the cues of the groups returned by groupCuesIntoSentences, concatenated
\* in group order, are exactly the input cues, and no group is empty.
C2_GroupCoverage ==
    Grouped =>
        /\ GroupCues(pgroups) = pcues
        /\ \A g \in 1..Len(pgroups) : Len(pgroups[g].cues) > 0

\* C2 witness: several groups, one of them of several cues
C2_Witness ==
    /\ pstage = "grouped"
    /\ Len(pgroups) >= 2
    /\ \E g \in 1..Len(pgroups) : Len(pgroups[g].cues) >= 2

\* C3: parsing the reconstruction of parsed cues gives cues of the same
\* number with the same startTime, endTime, textLines and originalIndex.
C3_RoundTrip ==
    pstage = "reparsed" =>
        /\ Len(pcues2) = Len(pcues)
        /\ \A i \in 1..Len(pcues) :
              /\ pcues2[i].startTime = pcues[i].startTime
              /\ pcues2[i].endTime = pcues[i].endTime
              /\ pcues2[i].textLines = pcues[i].textLines
              /\ pcues2[i].originalIndex = pcues[i].originalIndex

\* C3 witness: a round trip of several cues, one of several text lines and
\* one with an empty end time
C3_Witness ==
    /\ pstage = "reparsed"
    /\ Len(pcues) >= 2
    /\ \E i \in 1..Len(pcues) : Len(pcues[i].textLines) >= 2
    /\ \E i \in 1..Len(pcues) : pcues[i].endTime = <<>>

\* C4: the i-th cue returned by parse (counting from 0) has originalIndex i.
C4_IndexSequential ==
    pstage # "input" => \A i \in 1..Len(pcues) : pcues[i].originalIndex = i - 1

\* C4 witness: two timestamp lines in a row, text before and after them, and
\* two cues emitted
C4_Witness ==
    /\ pstage = "parsed"
    /\ Len(pcues) >= 2
    /\ LET lines == Split(pin, <<LF>>)
       IN  \E k \in 2..(Len(lines) - 2) :
              /\ IsTextLine(lines[k - 1])
              /\ IsTimeLine(lines[k])
              /\ IsTimeLine(lines[k + 1])
              /\ IsTextLine(lines[k + 2])

\* C5: adjacent cues i-1 and i are in different groups exactly when the
\* trimmed last line of cue i-1 ends a sentence and the trimmed first line of
\* cue i starts one; otherwise cue i is in the group of cue i-1.
C5_BoundaryIff ==
    Grouped =>
        \A i \in 2..Len(pcues) :
            (GroupOf(pgroups, i) # GroupOf(pgroups, i - 1))
                <=> (/\ SENTENCE_ENDINGS(Trim(LastLine(pcues[i - 1])))
                     /\ SENTENCE_STARTERS(Trim(FirstLine(pcues[i]))))

\* C5 witness: three cues as in "Hello there." / "World is big." / "it
\* continues": a boundary after the first, none after the second
C5_Witness ==
    /\ pstage = "grouped"
    /\ Len(pcues) = 3
    /\ \A i \in 1..2 : LastLine(pcues[i])[Len(LastLine(pcues[i]))] = "."
    /\ FirstLine(pcues[2])[1] \in UpperCase
    /\ FirstLine(pcues[3])[1] \notin UpperCase
    /\ Len(pgroups) = 2
    /\ Len(pgroups[1].cues) = 1
    /\ Len(pgroups[2].cues) = 2


-----------------------------------------------------------------------------
(* Properties of redistributeTranslation.                                  *)

slotCount == TotalLines(rgroup)

\* the non-empty trimmed lines of the translated text
InputLines == SplitTranslatedLines(rtext)

\* the slots of all cues in order, as assigned before the filter
Slots == Flatten(newTextLines)

OutputLines == Flatten([k \in 1..Len(updatedCues) |-> updatedCues[k].textLines])

Empties(n) == [j \in 1..n |-> <<>>]

NonBlank(line) == Trim(line) # <<>>

\* C1: for a non-empty translatedText, redistributeTranslation returns one cue
\* per cue of the group, in order, each with the startTime, endTime and
\* originalIndex of the input cue.
C1_CuesPreserved ==
    (rpc = "done" /\ rtext # <<>>) =>
        /\ Len(updatedCues) = Len(rgroup.cues)
        /\ \A k \in 1..Len(rgroup.cues) :
              /\ updatedCues[k].startTime = rgroup.cues[k].startTime
              /\ updatedCues[k].endTime = rgroup.cues[k].endTime
              /\ updatedCues[k].originalIndex = rgroup.cues[k].originalIndex

\* C1 witness: a group of several cues, one of which is left without text
C1_Witness ==
    /\ rpc = "done"
    /\ rtext # <<>>
    /\ Len(rgroup.cues) >= 2
    /\ \E k \in 1..Len(updatedCues) : updatedCues[k].textLines = <<>>
    /\ \E k \in 1..Len(updatedCues) : updatedCues[k].textLines # <<>>

\* C6: with more translated lines than slots (slotCount >= 1), the first
\* slotCount-1 slots hold the first lines unchanged and the last slot holds
\* the remaining lines, from the slotCount-th on, joined by single blanks.
C6_OverfillMerge ==
    (rpc = "done" /\ slotCount >= 1 /\ Len(InputLines) > slotCount) =>
        /\ Slots = SubSeq(InputLines, 1, slotCount - 1)
                       \o <<Join(SubSeq(InputLines, slotCount, Len(InputLines)), <<SP>>)>>
        /\ OutputLines = Slots

\* C6 witness: three lines for the two slots of two cues ("A\nB\nC")
C6_Witness ==
    /\ rpc = "done"
    /\ Len(rgroup.cues) = 2
    /\ slotCount = 2
    /\ Len(InputLines) = 3
    /\ Len(updatedCues[2].textLines[1]) > Len(InputLines[2])

\* the lowest index among the longest lines
FirstLongest(lines) ==
    CHOOSE k \in 1..Len(lines) :
        /\ \A j \in 1..Len(lines) : Len(lines[j]) <= Len(lines[k])
        /\ \A j \in 1..(k - 1) : Len(lines[j]) < Len(lines[k])

\* C7: an iteration of the under-fill loop takes the longest line, the first
\* of the longest, and if it has w >= 2 blank-separated words replaces it in
\* place by its first ceil(w/2) words and its remaining words, each joined by
\* single blanks; a line of one word is left as it is.
C7_UnderfillStep ==
    (rsteps > 0 /\ rpc \in {"underfill", "overfill"}) =>
        LET k == FirstLongest(rbefore)
            words == Split(rbefore[k], <<SP>>)
            w == Len(words)
            half == IF w % 2 = 0 THEN w \div 2 ELSE (w \div 2) + 1
        IN  IF w >= 2
            THEN translatedLines =
                     SubSeq(rbefore, 1, k - 1)
                         \o <<Join(SubSeq(words, 1, half), <<SP>>),
                              Join(SubSeq(words, half + 1, w), <<SP>>)>>
                         \o SubSeq(rbefore, k + 1, Len(rbefore))
            ELSE translatedLines = rbefore

\* C7 witness: a split where two lines of several words were the longest
C7_Witness ==
    /\ rpc = "underfill"
    /\ rsteps > 0
    /\ Len(translatedLines) = Len(rbefore) + 1
    /\ \E j, k \in 1..Len(rbefore) :
          /\ j < k
          /\ Len(rbefore[j]) = Len(rbefore[k])
          /\ \A i \in 1..Len(rbefore) : Len(rbefore[i]) <= Len(rbefore[j])
          /\ Len(Split(rbefore[j], <<SP>>)) >= 2

\* C8: when the under-fill loop breaks on a longest line of one word, the
\* call still returns a cue per input cue: the lines fill the first slots in
\* order, every further slot is assigned the empty string, and no output cue
\* keeps an empty string among its textLines.
C8_ShortfallFilled ==
    (rpc = "done" /\ rstop = "break") =>
        /\ Len(updatedCues) = Len(rgroup.cues)
        /\ Len(translatedLines) < slotCount
        /\ Slots = translatedLines \o Empties(slotCount - Len(translatedLines))
        /\ \A k \in 1..Len(updatedCues) :
              /\ updatedCues[k].textLines = SelectSeq(newTextLines[k], NonBlank)
              /\ \A j \in 1..Len(updatedCues[k].textLines) :
                    updatedCues[k].textLines[j] # <<>>

\* C8 witness: one word for three slots ("Hi"): exactly one line is filled
C8_Witness ==
    /\ rpc = "done"
    /\ rstop = "break"
    /\ slotCount = 3
    /\ InputLines = <<<<"a">>>>
    /\ OutputLines = <<<<"a">>>>


-----------------------------------------------------------------------------
(* Properties of the translateVTT pipeline.                                *)

\* C9: redistributeTranslation is never called with the result of a failed
\* translation nor with an empty translatedText.
C9_NoCallOnFailedOrEmpty ==
    \A k \in 1..Len(calls) : calls[k].success /\ calls[k].translatedText # <<>>

\* the cues of the groups redistributed and appended in group order
InOrderCues ==
    Flatten([g \in 1..Len(sentenceGroups) |->
                redistributeTranslation(sentenceGroups[g], ctexts[g])])

\* C10: whatever the order in which the groups complete and their cues are
\* appended, the reconstructed output is the one of the in-order run.
C10_OrderIndependent ==
    pc = "reconstructed" => translatedContent = reconstructVTT(InOrderCues)

\* C10 witness: an output reconstructed from cues appended out of order
C10_Witness ==
    /\ pc = "reconstructed"
    /\ \E k \in 1..(Len(translatedCues) - 1) :
          translatedCues[k].originalIndex > translatedCues[k + 1].originalIndex
    /\ \E k \in 1..Len(translatedCues) : translatedCues[k].textLines # <<>>


-----------------------------------------------------------------------------
(* Further properties of redistributeTranslation.                          *)

\* C11: no step of redistributeTranslation changes its arguments: the group,
\* with the cues' startTime, endTime, originalIndex and textLines, and the
\* translated text stay as they were passed.
C11_InputsUnchanged == [][rgroup' = rgroup /\ rtext' = rtext]_vars

\* C11 witness: the call has returned cues whose text differs from the text
\* of the input cues, which still hold their own lines
C11_Witness ==
    /\ rpc = "done"
    /\ rgroup \in SlotGroups
    /\ \E k \in 1..Len(updatedCues) :
          /\ updatedCues[k].textLines # <<>>
          /\ updatedCues[k].textLines # rgroup.cues[k].textLines


-----------------------------------------------------------------------------
(* The boundary conditions and the timestamp line, as the specification    *)
(* states them.                                                            *)

\* straight and curly quotation marks
QuotationMarks == {"\"", "'", "U+201C", "U+201D", "U+2018", "U+2019"}

\* an uppercase letter, a hyphen or a quotation mark at the start
StartsSentence(s) == s # <<>> /\ s[1] \in (UpperCase \cup {"-"} \cup QuotationMarks)

\* a full stop, an exclamation mark, a question mark or an ellipsis at the end
EndsSentence(s) == s # <<>> /\ s[Len(s)] \in {".", "!", "?", "U+2026"}

\* C12: after a cue whose last line ends with '.', '!' or '?', a group
\* boundary is placed before cue i exactly when the trimmed first line of
\* cue i starts with an uppercase letter, a hyphen or a quotation mark,
\* straight or curly.
C12_StarterClass ==
    Grouped =>
        \A n \in 2..Len(pcues) :
            Trim(LastLine(pcues[n - 1]))[Len(Trim(LastLine(pcues[n - 1])))] \in {".", "!", "?"}
                => ((GroupOf(pgroups, n) # GroupOf(pgroups, n - 1))
                        <=> StartsSentence(Trim(FirstLine(pcues[n]))))

\* C13: before a cue whose first line starts with an uppercase letter, a
\* group boundary is placed after cue i-1 exactly when the trimmed last line
\* of cue i-1 ends with '.', '!', '?' or the ellipsis character.
C13_EndingClass ==
    Grouped =>
        \A n \in 2..Len(pcues) :
            Trim(FirstLine(pcues[n]))[1] \in UpperCase
                => ((GroupOf(pgroups, n) # GroupOf(pgroups, n - 1))
                        <=> EndsSentence(Trim(LastLine(pcues[n - 1]))))

\* the text before the first separator of a line, and all the text after it
BeforeSeparator(line) == SubSeq(line, 1, IndexOf(line, SEPARATOR) - 1)
AfterSeparator(line) == SubSeq(line, IndexOf(line, SEPARATOR) + Len(SEPARATOR), Len(line))

\* C14: every cue parse returns was opened by a line of the input holding the
\* separator, its startTime is the trimmed text before the separator and
\* its endTime the trimmed text after it, all of it.
C14_TimesFromLine ==
    pstage # "input" =>
        \A n \in 1..Len(pcues) :
            \E k \in 1..Len(Split(pin, <<LF>>)) :
                LET line == Trim(Split(pin, <<LF>>)[k])
                IN  /\ Includes(line, SEPARATOR)
                    /\ pcues[n].startTime = Trim(BeforeSeparator(line))
                    /\ pcues[n].endTime = Trim(AfterSeparator(line))


-----------------------------------------------------------------------------
(* Exhausted lines, word conservation and the bound of the under-fill loop. *)

\* C15 as stated: the translated lines run out before the slots only in
\* calls whose under-fill loop broke on a line that could not be split.
C15_ExhaustedOnlyAfterBreak ==
    (rpc = "done" /\ Len(translatedLines) < slotCount) => rstop = "break"

\* C15: the translated lines run out before the slots only in calls whose
\* under-fill loop broke on a line that could not be split, or whose
\* translatedText has no non-blank line (the loop runs no iteration); in
\* every other call each slot receives one of the translated lines.
C15_ExhaustedOnlyAfterBreakOrBlank ==
    rpc = "done" =>
        /\ Len(translatedLines) < slotCount => (rstop = "break" \/ InputLines = <<>>)
        /\ Len(translatedLines) >= slotCount => Slots = translatedLines

\* C15 witness: a text of blank lines only for two or more slots: the loop
\* stopped on its condition and every slot holds the empty string
C15_Witness ==
    /\ rpc = "done"
    /\ rtext # <<>>
    /\ InputLines = <<>>
    /\ rstop = "condition"
    /\ slotCount >= 2
    /\ Slots = Empties(slotCount)

\* the words of all lines in order, split at single blanks
AllWords(lines) == Flatten([k \in 1..Len(lines) |-> Split(lines[k], <<SP>>)])

C17_UnderfillBound ==
    rpc \in {"underfill", "overfill", "refill", "done"} =>
        /\ rsteps <= (IF slotCount > Len(InputLines) THEN slotCount - Len(InputLines) ELSE 0)
        /\ rpc \in {"underfill", "overfill"} =>
              Len(translatedLines) = Len(InputLines) + rsteps - (IF rstop = "break" THEN 1 ELSE 0)
        /\ rsteps > 0 => Len(translatedLines) <= slotCount
        /\ (rpc = "overfill" /\ Len(translatedLines) > slotCount) => rsteps = 0

\* C17 witness: the loop has ended after as many iterations as the bound
\* allows, two or more
C17_Witness ==
    /\ rpc = "overfill"
    /\ rsteps >= 2
    /\ rsteps = slotCount - Len(InputLines)


-----------------------------------------------------------------------------
(* A run of translateVTT publishes all of its output or none.              *)

\* C18: in every step of a run of translateVTT the groups are translated
\* one at a time in order; translatedContent changes only in the step that
\* ends the run after the last group was translated; a run that ends with
\* groups left untranslated leaves translatedContent, the translated cues
\* and the calls made as they were; no group is translated outside a run;
\* and whenever a run has ended isTranslating is false and progress null.
C18_NoPartialOutput ==
    [][ /\ (pc = "awaiting" /\ loopI' # loopI) =>
              (loopI' = loopI + 1 /\ Len(calls') = loopI')
        /\ (pc = "awaiting" /\ translatedContent' # translatedContent) =>
              (pc' = "idle" /\ loopI' = Len(sentenceGroups) /\ toast' = "Translation Complete")
        /\ (pc = "awaiting" /\ pc' = "idle" /\ loopI' < Len(sentenceGroups)) =>
              /\ toast' = "Translation Failed"
              /\ translatedContent' = translatedContent
              /\ translatedCues' = translatedCues
              /\ calls' = calls
        /\ pc = "idle" => translatedCues' \in {translatedCues, <<>>}
        /\ pc' = "idle" => (~isTranslating' /\ progress' = NoProgress)
      ]_vars

\* C18 witness: after a run that published its output, a run of two or more
\* groups has failed after its first group was translated
C18_Witness ==
    /\ pc = "idle"
    /\ toast = "Translation Failed"
    /\ translatedContent # <<>>
    /\ Len(sentenceGroups) >= 2
    /\ Len(calls) = 1
    /\ translatedCues # <<>>
    /\ ~isTranslating
    /\ progress = NoProgress

=============================================================================
